---- MODULE Spec2Model ----
(***************************************************************************)
(* State-machine model of backend/main.py: the /pipelines/parse handler    *)
(* parse_pipeline and the cycle detector check_is_dag with its nested      *)
(* recursive helper has_cycle.                                             *)
(*                                                                         *)
(* A node is modelled by its id (the only field the code reads), an edge   *)
(* by its source and target.  Every invocation of the handler owns one     *)
(* record of inv: its arguments, its locals, the call stack of has_cycle   *)
(* and what it gave back to the caller.                                    *)
(***************************************************************************)
EXTENDS Integers, Sequences, FiniteSets

VARIABLES inv

vars == <<inv>>

(* ------------------------------ inputs -------------------------------- *)

\* The node ids requests are built from (Node.id, Edge.source, Edge.target).
Ids == {"a", "b", "c"}

\* The ids of the requests served two at a time.
ConcIds == {"a", "b"}

\* Longest edge list of a request: served alone, served beside another
\* request, and served again with its lists permuted.
MaxEdges == 3
ConcMaxEdges == 2
PermMaxEdges == 2

SeqsUpTo(S, n) == UNION {[1..m -> S] : m \in 0..n}

\* Edge: source and target are free strings, nothing ties them to a node.
Edge(I) == [source : I, target : I]

\* The has_cycle frames that fit on the interpreter's stack when the handler
\* is called with the default recursion limit of 1000 (a few more or fewer
\* with the depth of the caller).
RecursionRoom == 996

\* The room a request may find: the default one, or, called deeper in the
\* stack or under a lower limit, one frame less than its ids can need.
Rooms(I) == {Cardinality(I) - 1, RecursionRoom}

\* Pipeline: a list of nodes and a list of edges.  A node list as long as
\* the id set lets every id be a node; a list with a repeated id is a
\* request with duplicate node ids.  room is not part of the request: it is
\* the stack the interpreter has left when the request is served.
Pipelines(I, maxEdges) ==
    [nodes : SeqsUpTo(I, Cardinality(I)), edges : SeqsUpTo(Edge(I), maxEdges),
     room : Rooms(I)]

(* ------------------------- invocation state --------------------------- *)

\* A request that has reached parse_pipeline and has not run a line of it.
Fresh(nodes, edges, room) ==
    [pc |-> "idle", nodes |-> nodes, edges |-> edges, room |-> room,
     num_nodes |-> -1, num_edges |-> -1,
     graph |-> <<>>, visited |-> {}, rec_stack |-> {},
     k |-> 0, stack |-> <<>>, ret |-> "none", response |-> {},
     entered |-> [id \in Ids |-> 0], steps |-> 0]

\* No request on this slot.
Absent == [Fresh(<<>>, <<>>, RecursionRoom) EXCEPT !.pc = "absent"]

\* The handler has answered (done) or an exception left it (raised).
Terminal(s) == s.pc \in {"done", "raised", "absent"}

\* Each call of check_is_dag binds graph, visited and rec_stack afresh, and
\* has_cycle closes over the bindings of its own call: a step of invocation i
\* changes the record of invocation i and nothing else.
SharedVisited(i, t) ==
    inv' = [j \in DOMAIN inv |->
              IF j = i THEN [t EXCEPT !.steps = @ + 1]
              ELSE IF inv[j].pc \in {"roots", "body", "unwind"}
                   THEN [inv[j] EXCEPT !.visited = t.visited]
                   ELSE inv[j]]

Update(i, t) == inv' = [inv EXCEPT ![i] = [t EXCEPT !.steps = @ + 1]]

(* --------------------------- parse_pipeline --------------------------- *)

DistinctCount(xs) == Cardinality({xs[n] : n \in DOMAIN xs})

\* Python's len of a list.
len(xs) == Len(xs)

\* num_nodes = len(pipeline.nodes); num_edges = len(pipeline.edges)
CanReceive(s) == s.pc = "idle"
DoReceive(s) ==
    [s EXCEPT !.pc = "build",
              !.num_nodes = len(s.nodes),
              !.num_edges = len(s.edges)]

\* return {'num_nodes': ..., 'num_edges': ..., 'is_dag': ...}
CanRespond(s) == s.pc = "ret"
DoRespond(s) ==
    [s EXCEPT !.pc = "done",
              !.response = {[num_nodes |-> s.num_nodes,
                             num_edges |-> s.num_edges,
                             is_dag |-> (s.ret = "True")]}]

(* ---------------------------- check_is_dag ---------------------------- *)

\* for edge in edges: graph[edge.source].append(edge.target)
\* A subscript on a dict raises KeyError for a key the dict does not hold.
RECURSIVE add_edges(_, _, _)
add_edges(graph, edges, n) ==
    IF n > Len(edges) THEN [raised |-> FALSE, graph |-> graph]
    ELSE IF edges[n].source \notin DOMAIN graph
         THEN [raised |-> TRUE, graph |-> graph]
         ELSE add_edges([graph EXCEPT ![edges[n].source] =
                                         Append(@, edges[n].target)],
                        edges, n + 1)

\* graph = {node.id: [] for node in nodes}, the edge loop, then the two sets.
CanBuildGraph(s) == s.pc = "build"
DoBuildGraph(s) ==
    LET empty == [id \in {s.nodes[n] : n \in DOMAIN s.nodes} |-> <<>>]
        r == add_edges(empty, s.edges, 1)
    IN  IF r.raised
        THEN [s EXCEPT !.pc = "raised", !.ret = "KeyError"]
        ELSE [s EXCEPT !.pc = "roots", !.graph = r.graph,
                       !.visited = {}, !.rec_stack = {}, !.k = 1]

\* graph.get(node_id, [])
graph_get(graph, node_id) ==
    IF node_id \in DOMAIN graph THEN graph[node_id] ELSE <<>>

\* Entry of has_cycle(node_id): a new frame, visited.add, rec_stack.add, and
\* the for loop stands before its first neighbor.  With no room left for the
\* frame the interpreter raises RecursionError in it before visited.add has
\* run; the exception leaves every frame and the handler.
EnterNoVisit(s, node_id) ==
    LET t == [s EXCEPT !.stack = Append(@, [node_id |-> node_id, j |-> 1]),
                       !.entered[node_id] = @ + 1]
    IN  IF Len(s.stack) >= s.room
        THEN [t EXCEPT !.pc = "raised", !.ret = "RecursionError"]
        ELSE [t EXCEPT !.pc = "body",
                       !.rec_stack = @ \cup {node_id}]

has_cycle_enter(s, node_id) ==
    LET t == [s EXCEPT !.stack = Append(@, [node_id |-> node_id, j |-> 1]),
                       !.entered[node_id] = @ + 1]
    IN  IF Len(s.stack) >= s.room
        THEN [t EXCEPT !.pc = "raised", !.ret = "RecursionError"]
        ELSE [t EXCEPT !.pc = "body",
                       !.visited = @ \cup {node_id},
                       !.rec_stack = @ \cup {node_id}]

\* The frame has_cycle is running in, and the neighbors its loop walks.
Top(s) == s.stack[Len(s.stack)]
Neighbors(s) == graph_get(s.graph, Top(s).node_id)
InLoop(s) == s.pc = "body" /\ Top(s).j <= Len(Neighbors(s))
Neighbor(s) == Neighbors(s)[Top(s).j]
Front(q) == SubSeq(q, 1, Len(q) - 1)

\* The for loop of the running frame moves to its next neighbor.
NextNeighbor(s) == [s EXCEPT !.stack[Len(s.stack)].j = @ + 1]

\* for node in nodes: if node.id not in visited: has_cycle(node.id)
CanRootCall(s) ==
    s.pc = "roots" /\ s.k <= Len(s.nodes) /\ s.nodes[s.k] \notin s.visited
DoRootCall(s) == has_cycle_enter(s, s.nodes[s.k])

\* for node in nodes: node.id is in visited, the loop goes on.
CanRootSkip(s) ==
    s.pc = "roots" /\ s.k <= Len(s.nodes) /\ s.nodes[s.k] \in s.visited
DoRootSkip(s) == [s EXCEPT !.k = @ + 1]

\* The node loop is exhausted: return True.
CanReturnTrue(s) == s.pc = "roots" /\ s.k > Len(s.nodes)
DoReturnTrue(s) == [s EXCEPT !.pc = "ret", !.ret = "True"]

\* if neighbor not in visited: has_cycle(neighbor)
CanRecurse(s) == InLoop(s) /\ Neighbor(s) \notin s.visited
DoRecurse(s) == has_cycle_enter(NextNeighbor(s), Neighbor(s))

\* elif neighbor in rec_stack: return True.  The frame is left as it is:
\* nothing is removed from rec_stack on this path.
CanBackEdge(s) ==
    InLoop(s) /\ Neighbor(s) \in s.visited /\ Neighbor(s) \in s.rec_stack
DoBackEdge(s) == [s EXCEPT !.pc = "unwind", !.stack = Front(@)]

\* neighbor is visited and not in rec_stack: neither branch is taken.
CanCrossEdge(s) ==
    InLoop(s) /\ Neighbor(s) \in s.visited /\ Neighbor(s) \notin s.rec_stack
DoCrossEdge(s) == NextNeighbor(s)

\* The for loop is exhausted: rec_stack.remove(node_id); return False.  The
\* caller is the frame below (its loop goes on) or the node loop of
\* check_is_dag (its if fails and it takes the next node).
PopNoRemove(s) ==
    [s EXCEPT !.stack = Front(@),
              !.pc = IF Len(s.stack) = 1 THEN "roots" ELSE "body",
              !.k = IF Len(s.stack) = 1 THEN @ + 1 ELSE @]

has_cycle_return_false(s) ==
    [s EXCEPT !.rec_stack = @ \ {Top(s).node_id},
              !.stack = Front(@),
              !.pc = IF Len(s.stack) = 1 THEN "roots" ELSE "body",
              !.k = IF Len(s.stack) = 1 THEN @ + 1 ELSE @]

CanPop(s) == s.pc = "body" /\ Top(s).j > Len(Neighbors(s))
DoPop(s) == has_cycle_return_false(s)

\* if has_cycle(neighbor): return True, in the frame that made the call.
CanUnwind(s) == s.pc = "unwind" /\ s.stack # <<>>
DoUnwind(s) == [s EXCEPT !.stack = Front(@)]

\* if has_cycle(node.id): return False, in check_is_dag.
CanReturnFalse(s) == s.pc = "unwind" /\ s.stack = <<>>
DoReturnFalse(s) == [s EXCEPT !.pc = "ret", !.ret = "False"]

(* ------------------------------ actions ------------------------------- *)

\* The slots a request can be served on, and those that hold one.
Invs == {1, 2}
Live(i) == i \in DOMAIN inv

Receive(i) == Live(i) /\ CanReceive(inv[i]) /\ Update(i, DoReceive(inv[i]))
BuildGraph(i) == Live(i) /\ CanBuildGraph(inv[i]) /\ Update(i, DoBuildGraph(inv[i]))
RootCall(i) == Live(i) /\ CanRootCall(inv[i]) /\ Update(i, DoRootCall(inv[i]))
RootSkip(i) == Live(i) /\ CanRootSkip(inv[i]) /\ Update(i, DoRootSkip(inv[i]))
ReturnTrue(i) == Live(i) /\ CanReturnTrue(inv[i]) /\ Update(i, DoReturnTrue(inv[i]))
Recurse(i) == Live(i) /\ CanRecurse(inv[i]) /\ Update(i, DoRecurse(inv[i]))
BackEdge(i) == Live(i) /\ CanBackEdge(inv[i]) /\ Update(i, DoBackEdge(inv[i]))
CrossEdge(i) == Live(i) /\ CanCrossEdge(inv[i]) /\ Update(i, DoCrossEdge(inv[i]))
Pop(i) == Live(i) /\ CanPop(inv[i]) /\ Update(i, DoPop(inv[i]))
Unwind(i) == Live(i) /\ CanUnwind(inv[i]) /\ Update(i, DoUnwind(inv[i]))
ReturnFalse(i) == Live(i) /\ CanReturnFalse(inv[i]) /\ Update(i, DoReturnFalse(inv[i]))
Respond(i) == Live(i) /\ CanRespond(inv[i]) /\ Update(i, DoRespond(inv[i]))

\* One request, served alone.
Init == \E p \in Pipelines(Ids, MaxEdges) : inv = [i \in {1} |-> Fresh(p.nodes, p.edges, p.room)]

Next ==
    \E i \in Invs :
        \/ Receive(i)
        \/ BuildGraph(i)
        \/ RootCall(i)
        \/ RootSkip(i)
        \/ ReturnTrue(i)
        \/ Recurse(i)
        \/ BackEdge(i)
        \/ CrossEdge(i)
        \/ Pop(i)
        \/ Unwind(i)
        \/ ReturnFalse(i)
        \/ Respond(i)

Spec == Init /\ [][Next]_vars

\* Two requests in flight at once (the endpoint is a plain def, which the
\* server runs on worker threads): their steps interleave freely.  The second
\* request has at most one edge and the default room.
InitConc ==
    \E p \in Pipelines(ConcIds, ConcMaxEdges),
       q \in [nodes : SeqsUpTo(ConcIds, Cardinality(ConcIds)),
              edges : SeqsUpTo(Edge(ConcIds), 1)] :
        inv = [i \in {1, 2} |-> IF i = 1 THEN Fresh(p.nodes, p.edges, p.room)
                                          ELSE Fresh(q.nodes, q.edges, RecursionRoom)]

SpecConc == InitConc /\ [][Next]_vars

(* --------------------- the handler as a function ---------------------- *)

\* The one step a request that has not ended can take.
step(s) ==
    CASE CanReceive(s) -> DoReceive(s)
      [] CanBuildGraph(s) -> DoBuildGraph(s)
      [] CanRootCall(s) -> DoRootCall(s)
      [] CanRootSkip(s) -> DoRootSkip(s)
      [] CanReturnTrue(s) -> DoReturnTrue(s)
      [] CanRecurse(s) -> DoRecurse(s)
      [] CanBackEdge(s) -> DoBackEdge(s)
      [] CanCrossEdge(s) -> DoCrossEdge(s)
      [] CanPop(s) -> DoPop(s)
      [] CanUnwind(s) -> DoUnwind(s)
      [] CanReturnFalse(s) -> DoReturnFalse(s)
      [] CanRespond(s) -> DoRespond(s)

\* parse_pipeline run from its first line to its return or its exception.
RECURSIVE parse_pipeline(_)
parse_pipeline(s) == IF Terminal(s) THEN s ELSE parse_pipeline(step(s))

\* What the caller of the handler gets: the response, or the exception.
Outcome(s) == [ret |-> s.ret, response |-> s.response]

Perms(n) == {p \in [1..n -> 1..n] : \A x, y \in 1..n : p[x] = p[y] => x = y}
Permute(xs, p) == [n \in DOMAIN xs |-> xs[p[n]]]

\* A request served in one piece, then the same request sent again with its
\* node list and its edge list reordered, served in one piece too.
Serve == inv[1].pc = "idle" /\ Update(1, parse_pipeline(inv[1]))

Resubmit ==
    /\ inv[1].pc \in {"done", "raised"}
    /\ inv[2].pc = "absent"
    /\ \E p \in Perms(Len(inv[1].nodes)), q \in Perms(Len(inv[1].edges)) :
           Update(2, parse_pipeline(Fresh(Permute(inv[1].nodes, p),
                                          Permute(inv[1].edges, q),
                                          inv[1].room)))

InitPerm ==
    \E p \in Pipelines(Ids, PermMaxEdges) :
        inv = [i \in {1, 2} |-> IF i = 1 THEN Fresh(p.nodes, p.edges, p.room) ELSE Absent]

NextPerm == Serve \/ Resubmit

SpecPerm == InitPerm /\ [][NextPerm]_vars

(* ------------------------ reference notions --------------------------- *)

\* The directed graph induced by an edge list, as a set of pairs.
Arcs(edges) == {<<edges[n].source, edges[n].target>> : n \in DOMAIN edges}

\* Everything reachable from S along arcs of E, S included.
RECURSIVE ReachFrom(_, _)
ReachFrom(E, S) ==
    LET T == S \cup {e[2] : e \in {d \in E : d[1] \in S}}
    IN  IF T = S THEN S ELSE ReachFrom(E, T)

\* Some arc u -> v closes a directed cycle: v reaches u (v = u: a self-loop).
Cyclic(edges) ==
    \E e \in Arcs(edges) : e[1] \in ReachFrom(Arcs(edges), {e[2]})

Acyclicity(edges) == IF Cyclic(edges) THEN "False" ELSE "True"

NodeIds(s) == {s.nodes[n] : n \in DOMAIN s.nodes}
Sources(s) == {s.edges[n].source : n \in DOMAIN s.edges}
Targets(s) == {s.edges[n].target : n \in DOMAIN s.edges}
InputIds(s) == NodeIds(s) \cup Sources(s) \cup Targets(s)
StackIds(s) == {s.stack[n].node_id : n \in DOMAIN s.stack}

\* check_is_dag has returned or raised.
Returned(s) == s.pc \in {"ret", "done", "raised"}
\* has_cycle frames may be live: the node loop of check_is_dag is running.
Traversing(s) == s.pc \in {"roots", "body", "unwind"}
\* The node loop is running and no has_cycle call has returned True.
Searching(s) == s.pc \in {"roots", "body"}

(* ------------------------------- claims -------------------------------- *)

\* C1 (as claimed): for every node list and edge list check_is_dag returns
\* True when the graph induced by the edges is acyclic and False otherwise.
C1_ReturnsAcyclicity ==
    \A i \in DOMAIN inv :
        Returned(inv[i]) => inv[i].ret = Acyclicity(inv[i].edges)

\* C2 (as claimed): an edge whose source is not a supplied node never makes
\* the adjacency build or check_is_dag raise; every input yields a boolean.
C2_NeverRaises ==
    \A i \in DOMAIN inv :
        /\ inv[i].pc # "raised"
        /\ Returned(inv[i]) => inv[i].ret \in {"True", "False"}

\* Every edge source is a supplied node and some edge target is not.
UnknownTargets(s) == Targets(s) \ NodeIds(s)
C3_Applies(s) == Sources(s) \subseteq NodeIds(s) /\ UnknownTargets(s) # {}

\* C3 (as claimed): when every edge source is a supplied node and some edge
\* target is not, check_is_dag does not raise; the unknown target has no adjacency entry and
\* no out-edges, it is in visited and rec_stack while its has_cycle call is
\* live and in visited only once that call has returned False; and the value
\* returned is the acyclicity of the graph.
C3_UnknownTargetTolerated ==
    \A i \in DOMAIN inv :
        LET s == inv[i] IN
        C3_Applies(s) =>
            /\ s.pc # "raised"
            /\ Returned(s) => s.ret = Acyclicity(s.edges)
            /\ s.ret = "True" => UnknownTargets(s) \subseteq s.visited
            /\ \A t \in UnknownTargets(s) :
                  /\ t \notin DOMAIN s.graph
                  /\ graph_get(s.graph, t) = <<>>
                  /\ (s.entered[t] > 0) = (t \in s.visited)
                  /\ t \in StackIds(s) => t \in s.visited /\ t \in s.rec_stack
                  /\ (Searching(s) /\ t \notin StackIds(s)) => t \notin s.rec_stack

\* C4: whenever parse_pipeline answers, num_nodes is the length of the node
\* list and num_edges the length of the edge list, repeats counted, and
\* is_dag is what check_is_dag returned.
C4_CountsAreLengths ==
    \A i \in DOMAIN inv :
        \A r \in inv[i].response :
            /\ r.num_nodes = Len(inv[i].nodes)
            /\ r.num_edges = Len(inv[i].edges)
            /\ r.is_dag = (inv[i].ret = "True")
            /\ inv[i].ret \in {"True", "False"}

C4_Witness ==
    \E i \in DOMAIN inv :
        \E r \in inv[i].response :
            /\ r.num_edges = 2 /\ r.is_dag
            /\ inv[i].edges[1] = inv[i].edges[2]

\* C5 (as claimed): a request and the same request with its node list and its
\* edge list permuted, served with the same room, have the same outcome: the
\* same is_dag, num_nodes and num_edges.
C5_OrderIndependent ==
    inv[2].pc # "absent" => Outcome(inv[2]) = Outcome(inv[1])

SelfLoop(edges) == \E n \in DOMAIN edges : edges[n].source = edges[n].target

\* C6 (as claimed): every graph with a self-loop has is_dag = false, whatever
\* its other nodes and edges.
C6_SelfLoopIsNotDag ==
    \A i \in DOMAIN inv :
        (SelfLoop(inv[i].edges) /\ Returned(inv[i])) => inv[i].ret = "False"

Repeats(xs) == \E m, n \in DOMAIN xs : m # n /\ xs[m] = xs[n]

\* C7 (as claimed): with an id repeated in the node list check_is_dag does
\* not crash and returns a boolean; the id has one adjacency entry and is a
\* top-level root at most once.
C7_DuplicateIdsDoNotCrash ==
    \A i \in DOMAIN inv :
        Repeats(inv[i].nodes) =>
            /\ inv[i].pc # "raised"
            /\ \A id \in Ids : inv[i].entered[id] <= 1

\* The outcome of an ended invocation is the one of the same request served
\* with the same room and no other request in flight.
SameAsAlone(s) ==
    Terminal(s) => Outcome(s) = Outcome(parse_pipeline(Fresh(s.nodes, s.edges, s.room)))

\* A step that changes one invocation's record changes no other's.
OthersUntouched ==
    \A i \in DOMAIN inv :
        inv[i]' # inv[i] => \A j \in DOMAIN inv \ {i} : inv[j]' = inv[j]

\* C8: with two invocations in flight, their steps interleaved in any order, a
\* step of one leaves the adjacency map, visited and rec_stack of the other as
\* they were, and each ends with the outcome it has when served alone.
C8_OwnStructures ==
    /\ [](\A i \in DOMAIN inv : SameAsAlone(inv[i]))
    /\ [][OthersUntouched]_vars

C8_Witness ==
    /\ inv[1].pc = "body" /\ inv[2].pc = "body"
    /\ inv[1].visited # inv[2].visited
    /\ inv[1].nodes = inv[2].nodes

\* C9 (as claimed): at every step of a traversal, here every step at which a
\* has_cycle call is live, rec_stack is exactly the set of ids of the
\* has_cycle calls entered and not yet returned.
C9_RecStackIsActivePath ==
    \A i \in DOMAIN inv :
        inv[i].stack # <<>> => inv[i].rec_stack = StackIds(inv[i])

\* C9 (amended): until a has_cycle call returns True or raises, rec_stack is
\* exactly the set of ids of the live has_cycle calls; after a return of True
\* it keeps the ids of the calls that return True.  Always rec_stack is a subset of visited, every
\* successor of a node in visited and not in rec_stack is itself in visited
\* and not in rec_stack, and rec_stack is empty when check_is_dag returns True.
C9_RecStackUntilCycle ==
    \A i \in DOMAIN inv :
        LET s == inv[i] IN
        /\ Searching(s) => s.rec_stack = StackIds(s)
        /\ Traversing(s) => StackIds(s) \subseteq s.rec_stack
        /\ s.rec_stack \subseteq s.visited
        /\ \A v \in s.visited \ s.rec_stack :
              \A n \in DOMAIN graph_get(s.graph, v) :
                  graph_get(s.graph, v)[n] \in s.visited \ s.rec_stack
        /\ s.ret = "True" => s.rec_stack = {}

C9_Witness ==
    \E i \in DOMAIN inv :
        LET s == inv[i] IN
        /\ s.pc = "body" /\ s.rec_stack = StackIds(s)
        /\ s.visited = Ids
        /\ \E v \in s.visited \ s.rec_stack : graph_get(s.graph, v) # <<>>

StepBound(s) == 4 + Len(s.nodes) + Len(s.edges) + 2 * Cardinality(InputIds(s))

\* Some line of the handler is ready to run.
CanStep(s) ==
    \/ CanReceive(s) \/ CanBuildGraph(s) \/ CanRootCall(s) \/ CanRootSkip(s)
    \/ CanReturnTrue(s) \/ CanRecurse(s) \/ CanBackEdge(s) \/ CanCrossEdge(s)
    \/ CanPop(s) \/ CanUnwind(s) \/ CanReturnFalse(s) \/ CanRespond(s)

\* C10: has_cycle is entered at most once per id, at most as many calls are
\* live as there are distinct ids in the input, and the handler ends: it is
\* never stuck before its end and never takes more steps than
\* 4 + len(nodes) + len(edges) + 2 * (distinct ids).
C10_EnteredOnceAndEnds ==
    \A i \in DOMAIN inv :
        LET s == inv[i] IN
        /\ \A id \in Ids : s.entered[id] <= 1
        /\ Len(s.stack) <= Cardinality(InputIds(s))
        /\ s.steps <= StepBound(s)
        /\ Terminal(s) \/ CanStep(s)

C10_Witness ==
    \E i \in DOMAIN inv :
        LET s == inv[i] IN
        /\ s.pc = "body"
        /\ Len(s.stack) = Cardinality(InputIds(s))
        /\ InputIds(s) = Ids
        /\ \A id \in Ids : s.entered[id] = 1

====
